---------------------------- MODULE Spec2Model ----------------------------
(***************************************************************************)
(* Turkish inflectional morphology (kaan9/turkish-morphology): the         *)
(* notation parser and the resolution engine of package inflection.        *)
(*                                                                         *)
(* A rune is modelled as a one-character string.  The six Turkish letters  *)
(* outside ASCII are written with a trailing tilde:                        *)
(*   "c~" c-cedilla, "g~" soft g, "i~" dotless i, "o~" o-umlaut,           *)
(*   "s~" s-cedilla, "u~" u-umlaut.                                        *)
(* The rune 0 (no character) is Zero.  Go indices are 0-based; At and      *)
(* GoStore take Go indices.                                                *)
(***************************************************************************)
EXTENDS Integers, Sequences, FiniteSets, TLC

(***************************************************************************)
(* Alphabet                                                                *)
(***************************************************************************)
Zero == "NUL"

\* the character class [a-z c~ g~ i~ o~ s~ u~] of both regular expressions
Lower ==
    { "a", "b", "c", "d", "e", "f", "g", "h", "i", "j", "k", "l", "m",
      "n", "o", "p", "q", "r", "s", "t", "u", "v", "w", "x", "y", "z",
      "c~", "g~", "i~", "o~", "s~", "u~" }

\* \s of Go's regexp: [\t\n\f\r ]
Space == { " ", "\t", "\n", "\f", "\r" }

ConsPlaceholders == { "B", "C", "D", "K" }

voiceless == { "f", "s", "t", "k", "c~", "s~", "h", "p" }

vowel == { "a", "e", "i~", "i", "o", "o~", "u", "u~", "A", "I" }

ExactVowels == vowel \ { "A", "I" }

quality(f, r, h) == [front |-> f, round |-> r, high |-> h]

vowel_to_quality(v) ==
    CASE v = "a"  -> quality(FALSE, FALSE, FALSE)
      [] v = "e"  -> quality(TRUE, FALSE, FALSE)
      [] v = "i~" -> quality(FALSE, FALSE, TRUE)
      [] v = "i"  -> quality(TRUE, FALSE, TRUE)
      [] v = "o"  -> quality(FALSE, TRUE, FALSE)
      [] v = "o~" -> quality(TRUE, TRUE, FALSE)
      [] v = "u"  -> quality(FALSE, TRUE, TRUE)
      [] v = "u~" -> quality(TRUE, TRUE, TRUE)
      [] v = "A"  -> quality(FALSE, FALSE, FALSE)
      [] v = "I"  -> quality(FALSE, FALSE, TRUE)
      [] OTHER    -> quality(FALSE, FALSE, FALSE)   \* absent key: zero value

quality_to_vowel(q) ==
    CASE q = quality(FALSE, FALSE, FALSE) -> "a"
      [] q = quality(TRUE, FALSE, FALSE)  -> "e"
      [] q = quality(FALSE, FALSE, TRUE)  -> "i~"
      [] q = quality(TRUE, FALSE, TRUE)   -> "i"
      [] q = quality(FALSE, TRUE, FALSE)  -> "o"
      [] q = quality(TRUE, TRUE, FALSE)   -> "o~"
      [] q = quality(FALSE, TRUE, TRUE)   -> "u"
      [] q = quality(TRUE, TRUE, TRUE)    -> "u~"

(***************************************************************************)
(* resolve_vowel, resolve_cons                                             *)
(***************************************************************************)
resolve_vowel(v, front, round) ==
    LET r == CASE v = "A" -> quality_to_vowel(quality(front, FALSE, FALSE))
               [] v = "I" -> quality_to_vowel(quality(front, round, TRUE))
               [] OTHER   -> v
    IN  [q |-> vowel_to_quality(r), v |-> r]

VoicedForm(c) ==
    CASE c = "B" -> "b"
      [] c = "C" -> "c"
      [] c = "D" -> "d"
      [] c = "K" -> "g"
      [] OTHER   -> c

VoicelessForm(c) ==
    CASE c = "B" -> "p"
      [] c = "C" -> "c~"
      [] c = "D" -> "t"
      [] c = "K" -> "k"
      [] OTHER   -> c

Lenite(prev, c) == IF prev \in vowel /\ c = "g" THEN "g~" ELSE c

\* n only before a vowel, nothing otherwise
NasalBeforeVowel(c, next) ==
    IF c = "N" THEN (IF next \in vowel THEN "n" ELSE Zero) ELSE c

Nasal(c, next) == IF c = "N" THEN (IF next = Zero THEN Zero ELSE "n") ELSE c

\* the test of prev against voiceless is left out
resolve_cons_any_prev(prev, c, next) ==
    LET c1 == IF next \in vowel /\ prev # Zero
              THEN VoicedForm(c)
              ELSE VoicelessForm(c)
    IN  Nasal(Lenite(prev, c1), next)

resolve_cons(prev, c, next) ==
    LET c1 == IF next \in vowel /\ prev # Zero /\ prev \notin voiceless
              THEN VoicedForm(c)
              ELSE VoicelessForm(c)
    IN  Nasal(Lenite(prev, c1), next)


(***************************************************************************)
(* Go slices.  mem is the sequence of backing arrays allocated so far; a   *)
(* slice value is [arr |-> index into mem, len |-> length].  Inside a call *)
(* the working buffer is a record                                          *)
(*   [mem, s, base, cap, panic]                                            *)
(* where s is the buffer's contents, cap its capacity and base the array   *)
(* of mem it shares storage with (0: a fresh array no caller can see).     *)
(* A reallocating append yields an array of exactly the needed capacity.   *)
(***************************************************************************)
Slice(a, n) == [arr |-> a, len |-> n]

Runes(mem, sl) == SubSeq(mem[sl.arr], 1, sl.len)

Alloc(mem, data) == [mem |-> Append(mem, data), sl |-> Slice(Len(mem) + 1, Len(data))]

InRange(s, i) == 0 <= i /\ i < Len(s)

At(s, i) == IF InRange(s, i) THEN s[i + 1] ELSE Zero

\* the contents of array a after data is written at Go indices from..from+Len(data)-1
WriteArr(a, from, data) ==
    [k \in 1..Len(a) |->
        IF from < k /\ k <= from + Len(data) THEN data[k - from] ELSE a[k]]

GoAppend(w, xs) ==
    IF Len(w.s) + Len(xs) <= w.cap
    THEN [w EXCEPT !.s = w.s \o xs,
                   !.mem = IF w.base = 0 THEN @
                           ELSE [@ EXCEPT ![w.base] = WriteArr(@, Len(w.s), xs)]]
    ELSE [w EXCEPT !.s = w.s \o xs, !.base = 0, !.cap = Len(w.s) + Len(xs)]

\* s = s[:len(s)-2]: one character too many is cut
GoDropTwo(w) ==
    IF Len(w.s) < 2 THEN [w EXCEPT !.panic = TRUE]
    ELSE [w EXCEPT !.s = SubSeq(w.s, 1, Len(w.s) - 2)]

GoDropLast(w) == [w EXCEPT !.s = SubSeq(w.s, 1, Len(w.s) - 1)]

GoStore(w, i, c) ==
    IF ~InRange(w.s, i) THEN [w EXCEPT !.panic = TRUE]
    ELSE [w EXCEPT !.s = [@ EXCEPT ![i + 1] = c],
                   !.mem = IF w.base = 0 THEN @
                           ELSE [@ EXCEPT ![w.base] = WriteArr(@, i, <<c>>)]]

LastOf(s) == At(s, Len(s) - 1)

(***************************************************************************)
(* Stem.Append                                                             *)
(***************************************************************************)
\* s := stem: the buffer shares the caller's array instead of copying it
AliasStem(mem, stem) ==
    [mem |-> mem, s |-> Runes(mem, stem), base |-> stem.arr,
     cap |-> Len(mem[stem.arr]), panic |-> FALSE]

\* s := Stem(make([]rune, len(stem))); copy(s, stem)
CopyStem(mem, stem) ==
    [mem |-> mem, s |-> Runes(mem, stem), base |-> 0, cap |-> stem.len,
     panic |-> FALSE]

\* the head is appended whenever it is set
HeadAlways(s, suffix) == suffix.Head # Zero

\* the classes are compared with == : the head is appended to its own class
HeadSameClass(s, suffix) ==
    suffix.Head # Zero /\ ((LastOf(s) \in vowel) = (suffix.Head \in vowel))

HeadRealized(s, suffix) ==
    suffix.Head # Zero /\ ((LastOf(s) \in vowel) # (suffix.Head \in vowel))

HeadStep(w, suffix) ==
    IF w.panic \/ Len(w.s) = 0 THEN [w EXCEPT !.panic = TRUE]
    ELSE IF HeadRealized(w.s, suffix) THEN GoAppend(w, <<suffix.Head>>)
    ELSE w

\* the elision step is never taken
ElidesNever(s, body) == FALSE

\* the body's first character is not looked at
ElidesBeforeConsonant(s, body) == LastOf(s) \in vowel /\ Len(body) # 0

Elides(s, body) ==
    LastOf(s) \in vowel /\ Len(body) # 0 /\ body[1] \in vowel

ElideStep(w, body) ==
    IF w.panic \/ Len(w.s) = 0 THEN [w EXCEPT !.panic = TRUE]
    ELSE IF Elides(w.s, body) THEN GoDropLast(w)
    ELSE w

\* s = append(s, suffix.Tail): the tail goes in as the exact n it is stored as
BodyStepTailExact(w, suffix, body) ==
    IF w.panic THEN w
    ELSE LET w1 == GoAppend(w, body)
         IN  IF suffix.Tail # Zero THEN GoAppend(w1, <<suffix.Tail>>) ELSE w1

BodyStep(w, suffix, body) ==
    IF w.panic THEN w
    ELSE LET w1 == GoAppend(w, body)
         IN  IF suffix.Tail # Zero THEN GoAppend(w1, <<"N">>) ELSE w1

\* the scan without its break: the earliest exact vowel is the one kept
HarmonyScanEarliest(s, i) ==
    LET J == { j \in 0..i : At(s, j) \in ExactVowels }
        e == CHOOSE j \in J : \A k \in J : j <= k
    IN  IF J = {} THEN [front |-> FALSE, round |-> FALSE, panic |-> FALSE]
        ELSE [front |-> vowel_to_quality(At(s, e)).front,
              round |-> vowel_to_quality(At(s, e)).round,
              panic |-> FALSE]

\* quality of the latest exact vowel of s at or before Go index i
RECURSIVE HarmonyScan(_, _)
HarmonyScan(s, i) ==
    IF i < 0 THEN [front |-> FALSE, round |-> FALSE, panic |-> FALSE]
    ELSE IF ~InRange(s, i) THEN [front |-> FALSE, round |-> FALSE, panic |-> TRUE]
    ELSE IF At(s, i) \in vowel /\ At(s, i) # "A" /\ At(s, i) # "I"
         THEN [front |-> vowel_to_quality(At(s, i)).front,
               round |-> vowel_to_quality(At(s, i)).round,
               panic |-> FALSE]
         ELSE HarmonyScan(s, i - 1)

\* one iteration that leaves the harmony context as the backward scan set it
ResolveAtStale(w, i, h) ==
    IF At(w.s, i) \in vowel
    THEN [w |-> GoStore(w, i, resolve_vowel(At(w.s, i), h.front, h.round).v),
          h |-> IF At(w.s, i) \in { "A", "I" } THEN h
                ELSE [front |-> vowel_to_quality(At(w.s, i)).front,
                      round |-> vowel_to_quality(At(w.s, i)).round]]
    ELSE IF ~InRange(w.s, i + 1) \/ (i # 0 /\ ~InRange(w.s, i - 1))
    THEN [w |-> [w EXCEPT !.panic = TRUE], h |-> h]
    ELSE LET prev == IF i = 0 THEN Zero ELSE At(w.s, i - 1)
         IN  [w |-> GoStore(w, i, resolve_cons(prev, At(w.s, i), At(w.s, i + 1))),
              h |-> h]

\* one iteration of the forward loop at Go index i: s[i], s[i-1] and
\* s[i+1] are indexed, and an index out of range panics
ResolveAt(w, i, h) ==
    IF At(w.s, i) \in vowel
    THEN LET r == resolve_vowel(At(w.s, i), h.front, h.round)
         IN  [w |-> GoStore(w, i, r.v),
              h |-> [front |-> r.q.front, round |-> r.q.round]]
    ELSE IF ~InRange(w.s, i + 1) \/ (i # 0 /\ ~InRange(w.s, i - 1))
    THEN [w |-> [w EXCEPT !.panic = TRUE], h |-> h]
    ELSE LET prev == IF i = 0 THEN Zero ELSE At(w.s, i - 1)
         IN  [w |-> GoStore(w, i, resolve_cons(prev, At(w.s, i), At(w.s, i + 1))),
              h |-> h]

\* the loop runs to the last position: for i := len(stem) - 1; i < len(s); i++
RECURSIVE ResolveLoopToEnd(_, _, _)
ResolveLoopToEnd(w, i, h) ==
    IF w.panic \/ ~(i < Len(w.s)) THEN [w |-> w, h |-> h]
    ELSE LET r == ResolveAt(w, i, h)
         IN  ResolveLoopToEnd(r.w, i + 1, r.h)

RECURSIVE ResolveLoop(_, _, _)
ResolveLoop(w, i, h) ==
    IF w.panic \/ ~(i < Len(w.s) - 1) THEN [w |-> w, h |-> h]
    ELSE LET r == ResolveAt(w, i, h)
         IN  ResolveLoop(r.w, i + 1, r.h)

\* the last position is left as the loop left it
FinalVowelSkipped(w, h) == w

FinalVowel(w, h) ==
    IF w.panic \/ Len(w.s) = 0 THEN [w EXCEPT !.panic = TRUE]
    ELSE IF LastOf(w.s) \in vowel
         THEN GoStore(w, Len(w.s) - 1, resolve_vowel(LastOf(w.s), h.front, h.round).v)
         ELSE w

\* the backward scan reads stem[i] instead of s[i]: a deleted final vowel
\* still sets the harmony context
AppendBufferScansStem(mem, stem, suffix) ==
    LET body == Runes(mem, suffix.Body)
        w3   == BodyStep(ElideStep(HeadStep(CopyStem(mem, stem), suffix), body),
                         suffix, body)
        h0   == HarmonyScan(Runes(mem, stem), stem.len - 1)
        w4   == IF h0.panic THEN [w3 EXCEPT !.panic = TRUE] ELSE w3
        r    == ResolveLoop(w4, stem.len - 1, [front |-> h0.front, round |-> h0.round])
    IN  FinalVowel(r.w, r.h)

\* the working buffer when Append returns
AppendBuffer(mem, stem, suffix) ==
    LET body == Runes(mem, suffix.Body)
        w3   == BodyStep(ElideStep(HeadStep(CopyStem(mem, stem), suffix), body),
                         suffix, body)
        h0   == HarmonyScan(w3.s, stem.len - 1)
        w4   == IF h0.panic THEN [w3 EXCEPT !.panic = TRUE] ELSE w3
        r    == ResolveLoop(w4, stem.len - 1, [front |-> h0.front, round |-> h0.round])
    IN  FinalVowel(r.w, r.h)

\* stem.Append(suffix): the memory on return and the returned slice
StemAppend(mem, stem, suffix) ==
    LET w == AppendBuffer(mem, stem, suffix)
        a == Alloc(w.mem, w.s)
    IN  [mem |-> a.mem, s |-> a.sl, panic |-> w.panic]

(***************************************************************************)
(* Stem.Word                                                               *)
(***************************************************************************)
\* w := Word(make([]rune, len(stem)+1)); copy(w, stem): one rune too many
CopyWordTooLong(mem, stem) ==
    [mem |-> mem, s |-> Runes(mem, stem) \o <<Zero>>, base |-> 0, cap |-> stem.len + 1,
     panic |-> FALSE]

\* w := Word(make([]rune, len(stem))); copy(w, stem)
CopyWord(mem, stem) ==
    [mem |-> mem, s |-> Runes(mem, stem), base |-> 0, cap |-> stem.len,
     panic |-> FALSE]

WordBuffer(mem, stem) ==
    LET w == CopyWord(mem, stem)
    IN  IF Len(w.s) = 0 THEN [w EXCEPT !.panic = TRUE]
        ELSE IF LastOf(w.s) \notin vowel
             THEN GoStore(w, Len(w.s) - 1, resolve_cons(Zero, LastOf(w.s), Zero))
             ELSE w

StemWord(mem, stem) ==
    LET w == WordBuffer(mem, stem)
        a == Alloc(w.mem, w.s)
    IN  [mem |-> a.mem, w |-> a.sl, panic |-> w.panic]

(***************************************************************************)
(* Suffix.String.  string(rune) and string([]rune) give the text of the    *)
(* same runes.                                                             *)
(***************************************************************************)
\* the tail is written as the placeholder N it stands for
SuffixStringTailN(mem, suffix) ==
    LET head == IF suffix.Head # Zero THEN <<"(", suffix.Head, ")">> ELSE <<>>
        tail == IF suffix.Tail # Zero THEN <<"(", "N", ")">> ELSE <<>>
    IN  head \o Runes(mem, suffix.Body) \o tail

SuffixString(mem, suffix) ==
    LET head == IF suffix.Head # Zero THEN <<"(", suffix.Head, ")">> ELSE <<>>
        tail == IF suffix.Tail # Zero THEN <<"(", suffix.Tail, ")">> ELSE <<>>
    IN  head \o Runes(mem, suffix.Body) \o tail

(***************************************************************************)
(* Notation parser.  A text is a sequence of runes.  A regular expression  *)
(* is modelled by the set of ways it matches the whole text and by the     *)
(* match the leftmost-first rule of Go's regexp selects among them: a      *)
(* greedy repetition takes the longest run that still lets the rest match, *)
(* an optional group is taken when it can be, and the left alternative is  *)
(* tried first.                                                            *)
(***************************************************************************)
AllIn(t, from, to, S) == \A k \in from..to : t[k] \in S

Sub(t, from, to) == SubSeq(t, from, to)

TailNote == <<"(", "n", ")">>

\* the largest element of a non-empty set of integers
Max(S) == CHOOSE x \in S : \A y \in S : y <= x

\* the final class also admits a bare N
RootFinalWithN == Lower \cup ConsPlaceholders \cup { "N" }

RootFinal == Lower \cup ConsPlaceholders

\* ^\s*([L]*)(?:([L BCDK])|(?:\((n)\)))\s*$
\* a: end of the leading \s*, b: end of group 1, alt: 1 for group 2, 2 for (n)
RootMatches(t) ==
    { m \in [a : 0..Len(t), b : 0..Len(t), alt : {1, 2}] :
        /\ m.a <= m.b
        /\ AllIn(t, 1, m.a, Space)
        /\ AllIn(t, m.a + 1, m.b, Lower)
        /\ \/ /\ m.alt = 1
              /\ m.b + 1 <= Len(t)
              /\ t[m.b + 1] \in RootFinal
              /\ AllIn(t, m.b + 2, Len(t), Space)
           \/ /\ m.alt = 2
              /\ m.b + 3 <= Len(t)
              /\ Sub(t, m.b + 1, m.b + 3) = TailNote
              /\ AllIn(t, m.b + 4, Len(t), Space) }

RootSubmatch(t) ==
    LET M  == RootMatches(t)
        a  == Max({ m.a : m \in M })
        Ma == { m \in M : m.a = a }
        b  == Max({ m.b : m \in Ma })
        Mb == { m \in Ma : m.b = b }
        m  == IF \E x \in Mb : x.alt = 1
              THEN CHOOSE x \in Mb : x.alt = 1
              ELSE CHOOSE x \in Mb : x.alt = 2
    IN  << Sub(t, a + 1, b),
           IF m.alt = 1 THEN <<t[b + 1]>> ELSE <<>>,
           IF m.alt = 2 THEN <<t[b + 2]>> ELSE <<>> >>

ParseRoot(t) ==
    IF RootMatches(t) = {} THEN [r |-> <<>>, ok |-> FALSE]
    ELSE LET matches == RootSubmatch(t)
         IN  IF matches[3] # <<>>
             THEN [r |-> matches[1] \o <<"N">>, ok |-> TRUE]
             ELSE [r |-> matches[1] \o matches[2], ok |-> TRUE]

SuffixChar == Lower \cup ConsPlaceholders \cup { "A", "I" }

\* the body group written with * instead of +: an empty body matches
SuffixMatchesEmptyBody(t) ==
    { m \in [a : 0..Len(t), hd : BOOLEAN, b : 0..Len(t), tl : BOOLEAN] :
        LET h == IF m.hd THEN m.a + 3 ELSE m.a
            e == IF m.tl THEN m.b + 3 ELSE m.b
        IN  /\ AllIn(t, 1, m.a, Space)
            /\ h <= m.b /\ e <= Len(t)
            /\ m.hd => /\ m.a + 3 <= Len(t)
                       /\ t[m.a + 1] = "("
                       /\ t[m.a + 2] \in SuffixChar
                       /\ t[m.a + 3] = ")"
            /\ AllIn(t, h + 1, m.b, SuffixChar)
            /\ m.tl => Sub(t, m.b + 1, m.b + 3) = TailNote
            /\ AllIn(t, e + 1, Len(t), Space) }

\* ^\s*(?:\(([L BCDKAI])\))?([L BCDKAI]+)(?:\((n)\))?\s*$
\* a: end of the leading \s*, hd: the head group is taken, b: end of the body,
\* tl: the tail group is taken
SuffixMatches(t) ==
    { m \in [a : 0..Len(t), hd : BOOLEAN, b : 0..Len(t), tl : BOOLEAN] :
        LET h == IF m.hd THEN m.a + 3 ELSE m.a      \* end of the head group
            e == IF m.tl THEN m.b + 3 ELSE m.b      \* end of the tail group
        IN  /\ AllIn(t, 1, m.a, Space)
            /\ h < m.b /\ e <= Len(t)
            /\ m.hd => /\ t[m.a + 1] = "("
                       /\ t[m.a + 2] \in SuffixChar
                       /\ t[m.a + 3] = ")"
            /\ AllIn(t, h + 1, m.b, SuffixChar)
            /\ m.tl => Sub(t, m.b + 1, m.b + 3) = TailNote
            /\ AllIn(t, e + 1, Len(t), Space) }

SuffixSubmatch(t) ==
    LET M  == SuffixMatches(t)
        a  == Max({ m.a : m \in M })
        Ma == { m \in M : m.a = a }
        hd == \E m \in Ma : m.hd
        Mh == { m \in Ma : m.hd = hd }
        b  == Max({ m.b : m \in Mh })
        Mb == { m \in Mh : m.b = b }
        tl == \E m \in Mb : m.tl
        h  == IF hd THEN a + 3 ELSE a
    IN  << IF hd THEN <<t[a + 2]>> ELSE <<>>,
           Sub(t, h + 1, b),
           IF tl THEN <<t[b + 2]>> ELSE <<>> >>

\* Body is the rune sequence; the caller's copy of it lives in mem
ParseSuffix(t) ==
    IF SuffixMatches(t) = {} THEN [suf |-> [Head |-> Zero, Tail |-> Zero, Body |-> <<>>],
                                   ok |-> FALSE]
    ELSE LET matches == SuffixSubmatch(t)
             h == IF matches[1] # <<>> THEN matches[1][1] ELSE Zero
             tt == IF matches[3] # <<>> THEN matches[3][1] ELSE Zero
         IN  [suf |-> [Head |-> h, Tail |-> tt, Body |-> matches[2]], ok |-> TRUE]

\* unicode.IsSpace on the runes a text can hold here ("VT" is U+000B)
FieldSpace == Space \cup { "VT" }

\* strings.Fields: the maximal runs of non-space runes, in order
RECURSIVE Fields(_)
Fields(t) ==
    IF t = <<>> THEN <<>>
    ELSE IF t[1] \in FieldSpace THEN Fields(Tail(t))
    ELSE LET stops == { k \in 1..Len(t) : t[k] \in FieldSpace }
             e == IF stops = {} THEN Len(t)
                  ELSE (CHOOSE k \in stops : \A j \in stops : k <= j) - 1
         IN  <<Sub(t, 1, e)>> \o Fields(Sub(t, e + 1, Len(t)))

\* sufs = append([]Suffix{suf}, sufs...): each suffix goes to the front
RECURSIVE ParseSuffixesReversed(_, _, _)
ParseSuffixesReversed(words, i, sufs) ==
    IF ~(i < Len(words)) THEN [sufs |-> sufs, ok |-> TRUE]
    ELSE LET p == ParseSuffix(words[i + 1])
         IN  IF ~p.ok THEN [sufs |-> <<>>, ok |-> FALSE]
             ELSE ParseSuffixesReversed(words, i + 1, <<p.suf>> \o sufs)

\* the loop over words[1:]: the suffixes parsed so far, or failure
RECURSIVE ParseSuffixes(_, _, _)
ParseSuffixes(words, i, sufs) ==
    IF ~(i < Len(words)) THEN [sufs |-> sufs, ok |-> TRUE]
    ELSE LET p == ParseSuffix(words[i + 1])
         IN  IF ~p.ok THEN [sufs |-> <<>>, ok |-> FALSE]
             ELSE ParseSuffixes(words, i + 1, Append(sufs, p.suf))

\* a bad suffix takes the bare return: the named result root is still set
ParseRootSuffixesKeepsRoot(t) ==
    LET words == Fields(t)
        fail  == [root |-> <<>>, sufs |-> <<>>, ok |-> FALSE]
    IN  IF Len(words) = 0 THEN fail
        ELSE LET p == ParseRoot(words[1])
             IN  IF ~p.ok THEN fail
                 ELSE LET q == ParseSuffixes(words, 1, <<>>)
                      IN  IF ~q.ok THEN [root |-> p.r, sufs |-> <<>>, ok |-> FALSE]
                          ELSE [root |-> p.r, sufs |-> q.sufs, ok |-> TRUE]

ParseRootSuffixes(t) ==
    LET words == Fields(t)
        fail  == [root |-> <<>>, sufs |-> <<>>, ok |-> FALSE]
    IN  IF Len(words) = 0 THEN fail
        ELSE LET p == ParseRoot(words[1])
             IN  IF ~p.ok THEN fail
                 ELSE LET q == ParseSuffixes(words, 1, <<>>)
                      IN  IF ~q.ok THEN fail
                          ELSE [root |-> p.r, sufs |-> q.sufs, ok |-> TRUE]

(***************************************************************************)
(* Inputs                                                                  *)
(***************************************************************************)
MaxProbeLen == 4      \* longest probe text handed to ParseRoot
MaxPrefixLen == 1     \* exact letters before the final element of a generated root
MaxBodyLen == 2       \* longest body of a generated suffix
MaxSuffixes == 2      \* most suffix tokens on a generated input line

\* all sequences over S of length 0..n
RECURSIVE SeqsUpTo(_, _)
SeqsUpTo(S, n) ==
    IF n = 0 THEN { <<>> }
    ELSE LET shorter == SeqsUpTo(S, n - 1)
         IN  shorter \cup { Append(s, c) : s \in { x \in shorter : Len(x) = n - 1 }, c \in S }

ProbeRunes == { "a", "K", "N", "A", "(", "n", ")", " " }

ProbeTexts == SeqsUpTo(ProbeRunes, MaxProbeLen)

StemLetters == { "a", "i", "o", "u~", "t", "g" }

RootFinalNotes == { <<c>> : c \in StemLetters \cup ConsPlaceholders } \cup { TailNote }

GenRootTexts == { p \o f : p \in SeqsUpTo(StemLetters, MaxPrefixLen), f \in RootFinalNotes }

\* roots written in the tests and the documentation
DocRootTexts ==
    { <<"y", "a", "p">>, <<"g", "i", "D">>, <<"b", "u", "(", "n", ")">>,
      <<"b", "a", "s~", "l", "a">>, <<"t", "a", "n", "i~">>, <<"g", "o~", "K">>,
      <<" ", "k", "a", "(", "n", ")", "\t">>, <<"y", "a", "N">>,
      <<"a", "B", "c">>, <<"y", "a", "K", "(", "n", ")">>, <<"y", "a", "(", "K", ")">>,
      <<"(", "K", ")", "o", "K">>, <<"s~", "u", "(", "n", ")">>, <<"d", "a", "B">>,
      <<"c", "a", "C">> }

RootTexts == ProbeTexts \cup GenRootTexts \cup DocRootTexts

HeadNotes == { <<>>, <<"(", "y", ")">>, <<"(", "I", ")">> }

BodyLetters == { "A", "I", "K", "g" }

TailNotes == { <<>>, TailNote }

GenSuffixTexts ==
    { h \o b \o tl : h \in HeadNotes,
                     b \in SeqsUpTo(BodyLetters, MaxBodyLen) \ { <<>> },
                     tl \in TailNotes }

\* texts handed to ParseSuffix alone: a head part, a body and a tail part,
\* each well or ill formed, between optional whitespace
HeadProbes ==
    { <<>>, <<"(", "A", ")">>, <<"(", "a", ")">>, <<"(", "K", ")">>, <<"(", "N", ")">>,
      <<"(", ")">>, <<"(", "a", "K", ")">>, <<"(", "a">> }

BodyProbes == SeqsUpTo({ "a", "K", "I", "N" }, MaxBodyLen)

TailProbes ==
    { <<>>, TailNote, <<"(", "a", ")">>, <<"(", "N", ")">>, <<"(", ")">>,
      <<"(", "n", "n", ")">>, <<"(", "n">> }

\* the texts TestParseSuffix expects to be rejected
TestBadSuffixTexts ==
    { <<"(", "I", ")">>, <<"(", "I", ")", "(", "n", ")">>, <<"b", "u", "N">>,
      <<"b", "u", "(", "s", ")">>, <<"(", "K", "C", ")", "b", "c", "d">>,
      <<"(", "A", ")", "b", "e", "e", "(", "I", ")">>, <<"(", ")", "a", "(", ")">>,
      <<"(", "N", ")", "A">>, <<"(", "I", "A", ")", "I", "(", "n", ")">>,
      <<"n", "(", "A", ")">>, <<"(", "n", "n", ")", "n", "n", "(", "n", ")">> }

GenSuffixProbes ==
    { pre \o h \o b \o tl \o post :
        pre \in { <<>>, <<" ">> }, h \in HeadProbes, b \in BodyProbes,
        tl \in TailProbes, post \in { <<>>, <<"\t", "\n">> } }

\* suffixes written in the tests and the documentation
LineSuffixTexts ==
    { <<"I", "y", "o", "r">>, <<"(", "y", ")", "s", "A">>, <<"(", "I", ")", "m">>,
      <<"l", "A", "r">>, <<"(", "n", ")", "I", "n">>, <<"k", "i">>,
      <<"D", "A", "n">>, <<"(", "s", ")", "I", "(", "n", ")">>,
      <<"(", "y", ")", "A", "c", "A", "K">>, <<"g", "i", "l">> }

LineRootTexts ==
    { <<"y", "a", "p">>, <<"b", "a", "s~", "l", "a">>, <<"b", "u", "(", "n", ")">>,
      <<"g", "i", "D">>, <<"s", "o~", "y", "l", "e">>, <<"o">>, <<"b", "a", "g">> }

RECURSIVE JoinTokens(_)
JoinTokens(ws) ==
    IF Len(ws) = 0 THEN <<>>
    ELSE IF Len(ws) = 1 THEN ws[1]
    ELSE ws[1] \o <<" ">> \o JoinTokens(Tail(ws))

GenLines ==
    { JoinTokens(<<r>> \o ss) : r \in LineRootTexts,
                                ss \in SeqsUpTo(LineSuffixTexts, MaxSuffixes) }

\* the input lines of the documentation and of TestAppend
LineYap ==
    <<"y", "a", "p", " ", "I", "y", "o", "r", " ", "(", "y", ")", "s", "A",
      " ", "(", "I", ")", "m">>

LineBasla ==
    <<"b", "a", "s~", "l", "a", " ", "I", "y", "o", "r">>

LineBu ==
    <<"b", "u", "(", "n", ")", " ", "l", "A", "r", " ", "(", "n", ")", "I",
      "n", " ", "k", "i", " ", "l", "A", "r", " ", "D", "A", "n">>

LineTani ==
    <<"t", "a", "n", "i~", " ", "(", "I", ")", "s~", " ", "D", "I", "r",
      " ", "(", "I", ")", "l", " ", "(", "y", ")", "A", "m", "A", " ", "(",
      "y", ")", "A", "b", "i", "l", " ", "(", "y", ")", "A", "c", "A", "K",
      " ", "l", "A", "r">>

LineTaniTest ==
    <<"t", "a", "n", "i~", " ", "(", "I", ")", "s~", " ", "D", "I", "r",
      " ", "(", "I", ")", "l", " ", "(", "y", ")", "A", "m", "A", " ", " ",
      "\t", "\r", "\n", " ", " ", " ", "(", "y", ")", "A", "b", "i", "l",
      " ", "(", "y", ")", "A", "c", "A", "K", " ", "l", "A", "r", " ", "D",
      "A", "n", " ", "(", "y", ")", "m", "I", "s~", " ", "c~", "A", " ",
      "(", "s", ")", "I", "(", "n", ")", " ", " ", "(", "y", ")", "A">>

LineBuTest ==
    <<"b", "u", "(", "n", ")", " ", "l", "A", "r", " ", " ", "(", "n", ")",
      "I", "n", " ", " ", "k", "i", " ", " ", " ", "l", "A", "r", " ", " ",
      " ", " ", "D", "A", "n", " ", "m", "I", " ", " ", "(", "y", ")", "m",
      "I", "s~">>

BadLines ==
    { <<>>, <<" ", "\t">>, <<"y", "a", "p", " ", "(", "I", ")">>,
      <<"y", "a", "N", " ", "l", "A", "r">>,
      <<"y", "a", "p", " ", "l", "A", "r", " ", "(", "n", ")">> }

ExampleLines == { LineYap, LineBasla, LineBu, LineTani, LineTaniTest, LineBuTest }

Lines == ExampleLines \cup BadLines \cup GenLines

(***************************************************************************)
(* The program: a caller of the package (the tests, or the read loop of    *)
(* cmd main) parses a root, converts it to a Stem, appends suffixes and    *)
(* asks for the Word.                                                      *)
(*   pc      where the caller is                                           *)
(*   text    the text last handed to a parser                              *)
(*   ok      the parser's second result                                    *)
(*   mem     the backing arrays allocated so far                           *)
(*   root    the parsed Root (a slice)                                     *)
(*   stem    the current Stem (a slice)                                    *)
(*   chain   every stem so far, oldest first, each with its contents at    *)
(*           the time it was returned                                      *)
(*   pending the parsed suffixes of the input line not yet appended        *)
(*   last    the last call: its name, and for Append its suffix with the   *)
(*           contents of the suffix body at the time of the call           *)
(*   word    the result of stem.Word()                                     *)
(*   word2   the result of Stem(word).Word()                               *)
(*   shown   the text suffix.String() returned                             *)
(*   again   the results of ParseSuffix(shown)                             *)
(***************************************************************************)
VARIABLES pc, text, ok, mem, root, stem, chain, pending, last, word, word2,
          shown, again

vars == <<pc, text, ok, mem, root, stem, chain, pending, last, word, word2,
          shown, again>>

NoSlice == Slice(0, 0)

NoSuffix == [Head |-> Zero, Tail |-> Zero, Body |-> NoSlice]

Call(op, suffix, body) == [op |-> op, suffix |-> suffix, body |-> body]

Init ==
    /\ pc = "start"
    /\ text = <<>>
    /\ ok = FALSE
    /\ mem = <<>>
    /\ root = NoSlice
    /\ stem = NoSlice
    /\ chain = <<>>
    /\ pending = <<>>
    /\ last = Call("none", NoSuffix, <<>>)
    /\ word = NoSlice
    /\ word2 = NoSlice
    /\ shown = <<>>
    /\ again = [suf |-> NoSuffix, ok |-> FALSE]

\* the Body of each parsed suffix is an array of its own
AllocSuffixes(m, sufs) ==
    [mem  |-> m \o [k \in 1..Len(sufs) |-> sufs[k].Body],
     sufs |-> [k \in 1..Len(sufs) |->
                 [sufs[k] EXCEPT !.Body = Slice(Len(m) + k, Len(sufs[k].Body))]]]

\* suffixes of TestParseSuffix with a placeholder consonant, an exact vowel
\* and a placeholder vowel as head
TestSuffixTexts ==
    { <<"(", "K", ")", "A", "A", "A", "A", "I", "I", "I", "I", "(", "n", ")">>,
      <<"(", "A", ")", "K", "D", "D", "C", "C", "B", "B", "(", "n", ")">>,
      <<"(", "I", ")", "A", "I", "(", "n", ")">>,
      <<"a", "b", "c">>, <<"A", "b", "C">> }

SuffixProbeTexts ==
    ProbeTexts \cup GenSuffixProbes \cup TestBadSuffixTexts \cup TestSuffixTexts
        \cup LineSuffixTexts

\* the generated and the documented suffix notations as ParseSuffix returns them
GenSuffixes ==
    { ParseSuffix(t).suf :
        t \in { x \in GenSuffixTexts \cup LineSuffixTexts \cup TestSuffixTexts :
                  ParseSuffix(x).ok } }

\* r, ok := ParseRoot(t), as TestParseRoot calls it
ParseRootOnly ==
    /\ pc = "start"
    /\ \E t \in ProbeTexts :
       \E p \in { ParseRoot(t) } :
       \E a \in { Alloc(mem, p.r) } :
         /\ text' = t
         /\ ok' = p.ok
         /\ mem' = IF p.ok THEN a.mem ELSE mem
         /\ root' = IF p.ok THEN a.sl ELSE NoSlice
    /\ pc' = "parsed"
    /\ last' = Call("ParseRoot", NoSuffix, <<>>)
    /\ UNCHANGED <<stem, chain, pending, word, word2, shown, again>>

\* suf, ok := ParseSuffix(t), as TestParseSuffix calls it; last.suffix is suf
ParseSuffixOnly ==
    /\ pc = "start"
    /\ \E t \in SuffixProbeTexts :
       \E p \in { ParseSuffix(t) } :
       \E a \in { Alloc(mem, p.suf.Body) } :
         /\ text' = t
         /\ ok' = p.ok
         /\ mem' = IF p.ok THEN a.mem ELSE mem
         /\ last' = Call("ParseSuffix",
                         [p.suf EXCEPT !.Body = IF p.ok THEN a.sl ELSE NoSlice],
                         p.suf.Body)
    /\ pc' = "parsed"
    /\ UNCHANGED <<root, stem, chain, pending, word, word2, shown, again>>

\* shown := suf.String() for the suffix ParseSuffix accepted
ShowSuffix ==
    /\ pc = "parsed"
    /\ last.op = "ParseSuffix"
    /\ ok
    /\ shown' = SuffixString(mem, last.suffix)
    /\ pc' = "shown"
    /\ UNCHANGED <<text, ok, mem, root, stem, chain, pending, last, word, word2, again>>

\* again := ParseSuffix(shown)
ReparseSuffix ==
    /\ pc = "shown"
    /\ \E p \in { ParseSuffix(shown) } :
       \E a \in { Alloc(mem, p.suf.Body) } :
         /\ mem' = IF p.ok THEN a.mem ELSE mem
         /\ again' = [suf |-> [p.suf EXCEPT !.Body = IF p.ok THEN a.sl ELSE NoSlice],
                      ok  |-> p.ok]
    /\ pc' = "reparsed"
    /\ UNCHANGED <<text, ok, root, stem, chain, pending, last, word, word2, shown>>

\* root, ok := ParseRoot(t); stem := Stem(root)   (the conversion shares the array)
StartWord ==
    /\ pc = "start"
    /\ \E t \in GenRootTexts \cup DocRootTexts :
       \E p \in { ParseRoot(t) } :
       \E a \in { Alloc(mem, p.r) } :
         /\ text' = t
         /\ ok' = p.ok
         /\ mem' = IF p.ok THEN a.mem ELSE mem
         /\ root' = IF p.ok THEN a.sl ELSE NoSlice
         /\ stem' = IF p.ok THEN a.sl ELSE NoSlice
         /\ chain' = IF p.ok THEN <<[sl |-> a.sl, val |-> p.r]>> ELSE <<>>
         /\ pc' = IF p.ok THEN "stem" ELSE "rejected"
    /\ last' = Call("ParseRoot", NoSuffix, <<>>)
    /\ UNCHANGED <<pending, word, word2, shown, again>>

\* stem = stem.Append(suffix) with the suffix already in memory m
\* An index out of range ends the program: pc becomes "panic".
DoAppend(m, suffix) ==
    \E r \in { StemAppend(m, stem, suffix) } :
        /\ pc' = IF r.panic THEN "panic" ELSE pc
        /\ mem' = IF r.panic THEN m ELSE r.mem
        /\ stem' = IF r.panic THEN stem ELSE r.s
        /\ chain' = IF r.panic THEN chain
                    ELSE Append(chain, [sl |-> r.s, val |-> Runes(r.mem, r.s)])
        /\ last' = Call(IF r.panic THEN "Append panicked" ELSE "Append",
                        suffix, Runes(m, suffix.Body))

\* stem = Stem(root).Append(suf) for a parsed suf: one call on every root.
\* Longer chains come from the input lines (ReadLine, AttachNext).
CallAppend ==
    /\ pc = "stem"
    /\ stem = root
    /\ \E suf \in GenSuffixes :
       \E a \in { Alloc(mem, suf.Body) } :
         DoAppend(a.mem, [suf EXCEPT !.Body = a.sl])
    /\ UNCHANGED <<text, ok, root, pending, word, word2, shown, again>>

\* word := stem.Word()
CallWord ==
    /\ pc = "stem"
    /\ \E r \in { StemWord(mem, stem) } :
         /\ mem' = IF r.panic THEN mem ELSE r.mem
         /\ word' = IF r.panic THEN word ELSE r.w
         /\ pc' = IF r.panic THEN "panic" ELSE "word"
    /\ last' = Call("Word", NoSuffix, <<>>)
    /\ UNCHANGED <<text, ok, root, stem, chain, pending, word2, shown, again>>

\* word2 := Stem(word).Word()
CallWordAgain ==
    /\ pc = "word"
    /\ \E r \in { StemWord(mem, word) } :
         /\ mem' = IF r.panic THEN mem ELSE r.mem
         /\ word2' = IF r.panic THEN word2 ELSE r.w
         /\ pc' = IF r.panic THEN "panic" ELSE "word2"
    /\ last' = Call("Word", NoSuffix, <<>>)
    /\ UNCHANGED <<text, ok, root, stem, chain, pending, word, shown, again>>

\* cmd main: root, sufs, ok := inf.ParseRootSuffixes(line); s := inf.Stem(root)
\* root and pending are what the call returned, whether ok or not (a nil
\* slice is NoSlice); main goes on to Stem(root) only when ok
ReadLine ==
    /\ pc = "start"
    /\ \E line \in Lines :
       \E p \in { ParseRootSuffixes(line) } :
       \E a \in { IF p.root = <<>> THEN [mem |-> mem, sl |-> NoSlice]
                   ELSE Alloc(mem, p.root) } :
       \E b \in { AllocSuffixes(a.mem, p.sufs) } :
         /\ text' = line
         /\ ok' = p.ok
         /\ mem' = b.mem
         /\ root' = a.sl
         /\ stem' = IF p.ok THEN a.sl ELSE NoSlice
         /\ chain' = IF p.ok THEN <<[sl |-> a.sl, val |-> p.root]>> ELSE <<>>
         /\ pending' = b.sufs
         /\ pc' = IF p.ok THEN "fold" ELSE "failed"
    /\ last' = Call("ParseRootSuffixes", NoSuffix, <<>>)
    /\ UNCHANGED <<word, word2, shown, again>>

\* cmd main: for _, suf := range sufs { s = s.Append(suf) }
AttachNext ==
    /\ pc = "fold"
    /\ pending # <<>>
    /\ DoAppend(mem, Head(pending))
    /\ pending' = Tail(pending)
    /\ UNCHANGED <<text, ok, root, word, word2, shown, again>>

\* cmd main: fmt.Printf("Stem: %s\nWord: %s\n\n", s, s.Word())
PrintWord ==
    /\ pc = "fold"
    /\ pending = <<>>
    /\ \E r \in { StemWord(mem, stem) } :
         /\ mem' = IF r.panic THEN mem ELSE r.mem
         /\ word' = IF r.panic THEN word ELSE r.w
         /\ pc' = IF r.panic THEN "panic" ELSE "word"
    /\ last' = Call("Word", NoSuffix, <<>>)
    /\ UNCHANGED <<text, ok, root, stem, chain, pending, word2, shown, again>>

Next ==
    \/ ParseRootOnly
    \/ ParseSuffixOnly
    \/ ShowSuffix
    \/ ReparseSuffix
    \/ StartWord
    \/ CallAppend
    \/ CallWord
    \/ CallWordAgain
    \/ ReadLine
    \/ AttachNext
    \/ PrintWord

Spec == Init /\ [][Next]_vars

(***************************************************************************)
(* Properties                                                              *)
(***************************************************************************)
Appended == last.op = "Append" /\ Len(chain) >= 2

\* the stem the last Append was called on and the stem it returned, as returned
Before == chain[Len(chain) - 1].val

After == chain[Len(chain)].val

Placeholders == ConsPlaceholders \cup { "A", "I", "N" }

\* the buffer of Append after the head, elision, body and tail steps, unresolved
RawBuffer(before, suffix, body) ==
    BodyStep(ElideStep(HeadStep(CopyStem(<<before>>, Slice(1, Len(before))), suffix),
                       body),
             suffix, body).s

\* C1: Append does not modify its inputs: every stem returned so far, the
\* root included, still holds the characters it held when it was returned,
\* and the body of the suffix of the last Append is as it was at the call.
C1_InputsUnchanged ==
    /\ \A k \in 1..Len(chain) : Runes(mem, chain[k].sl) = chain[k].val
    /\ Appended => Runes(mem, last.suffix.Body) = last.body

\* the buffer of Append after the head step
AfterHead(before, suffix) ==
    HeadStep(CopyStem(<<before>>, Slice(1, Len(before))), suffix).s

\* the last Append deleted a character
Elided == Appended /\ Elides(AfterHead(Before, last.suffix), last.body)

\* a second Append that dropped the final vowel of the stem it was given
\* and resolved a vowel in its place, with two earlier stems in memory
C1_Witness ==
    /\ Elided
    /\ Len(chain) >= 3
    /\ ~HeadRealized(Before, last.suffix)
    /\ After[Len(Before)] # Before[Len(Before)]
    /\ Runes(mem, chain[Len(chain) - 1].sl) = Before

\* C2 (as claimed): Append never rewrites a lowercase letter: every
\* lowercase letter of the unresolved buffer (the stem, the kept head, the
\* body) is the same letter at the same position of the result.
C2_ExactLiteral ==
    Appended =>
        LET buf == RawBuffer(Before, last.suffix, last.body)
        IN  /\ Len(After) = Len(buf)
            /\ \A i \in 1..Len(buf) : buf[i] \in Lower => After[i] = buf[i]

\* C3 (as claimed): a Word holds only exact lowercase letters.
C3_WordExact ==
    pc \in { "word", "word2" } =>
        \A i \in 1..word.len : Runes(mem, word)[i] \in Lower

\* what the claim says Word returns for a stem
ClaimedWord(s) ==
    LET n == Len(s)
        c == s[n]
    IN  IF c = "N" THEN SubSeq(s, 1, n - 1)
        ELSE [s EXCEPT ![n] = CASE c = "B" -> "p"
                                [] c = "C" -> "c~"
                                [] c = "D" -> "t"
                                [] c = "K" -> "k"
                                [] OTHER   -> c]

\* C4 (as claimed): Word changes only the last character: B, C, D, K become
\* p, c~, t, k; a trailing N is dropped; anything else is returned unchanged.
C4_WordLastOnly ==
    pc \in { "word", "word2" } => Runes(mem, word) = ClaimedWord(Runes(mem, stem))

\* C5: Word applied to the result of Word gives the same characters.
C5_WordIdempotent ==
    pc = "word2" => Runes(mem, word2) = Runes(mem, word)

\* Word changed the stem's last character and was applied again
C5_Witness ==
    /\ pc = "word2"
    /\ Runes(mem, word) # Runes(mem, stem)
    /\ Len(chain) >= 2

StemShape(s) ==
    /\ Len(s) >= 1
    /\ \A i \in 1..(Len(s) - 1) : s[i] \in Lower
    /\ s[Len(s)] \in Lower \cup ConsPlaceholders \cup { "N" }

\* C6: every stem of the chain, the root and each result of Append, is
\* non-empty, exact in all but its last character, and ends in an exact
\* letter or one of B, C, D, K, N.
C6_StemInvariant == \A k \in 1..Len(chain) : StemShape(chain[k].val)

\* a second Append on a stem ending in a placeholder, whose body ends in a vowel placeholder
C6_Witness ==
    /\ Appended
    /\ Len(chain) >= 3
    /\ Before[Len(Before)] \in ConsPlaceholders \cup { "N" }
    /\ last.body[Len(last.body)] \in { "A", "I" }
    /\ last.suffix.Tail = Zero

\* the stems the documentation and TestAppend give for the four input lines
StemsYap ==
    << <<"y", "a", "p">>,
       <<"y", "a", "p", "i~", "y", "o", "r">>,
       <<"y", "a", "p", "i~", "y", "o", "r", "s", "a">>,
       <<"y", "a", "p", "i~", "y", "o", "r", "s", "a", "m">> >>

StemsBasla ==
    << <<"b", "a", "s~", "l", "a">>,
       <<"b", "a", "s~", "l", "i~", "y", "o", "r">> >>

StemsBu ==
    << <<"b", "u", "N">>,
       <<"b", "u", "n", "l", "a", "r">>,
       <<"b", "u", "n", "l", "a", "r", "i~", "n">>,
       <<"b", "u", "n", "l", "a", "r", "i~", "n", "k", "i">>,
       <<"b", "u", "n", "l", "a", "r", "i~", "n", "k", "i", "l", "e", "r">>,
       <<"b", "u", "n", "l", "a", "r", "i~", "n", "k", "i", "l", "e", "r", "d",
         "e", "n">> >>

StemsTani ==
    << <<"t", "a", "n", "i~">>,
       <<"t", "a", "n", "i~", "s~">>,
       <<"t", "a", "n", "i~", "s~", "t", "i~", "r">>,
       <<"t", "a", "n", "i~", "s~", "t", "i~", "r", "i~", "l">>,
       <<"t", "a", "n", "i~", "s~", "t", "i~", "r", "i~", "l", "a", "m", "a">>,
       <<"t", "a", "n", "i~", "s~", "t", "i~", "r", "i~", "l", "a", "m", "a", "y",
         "a", "b", "i", "l">>,
       <<"t", "a", "n", "i~", "s~", "t", "i~", "r", "i~", "l", "a", "m", "a", "y",
         "a", "b", "i", "l", "e", "c", "e", "K">>,
       <<"t", "a", "n", "i~", "s~", "t", "i~", "r", "i~", "l", "a", "m", "a", "y",
         "a", "b", "i", "l", "e", "c", "e", "k", "l", "e", "r">> >>

Folding == pc \in { "fold", "word", "word2" }

\* the chain so far is the documented one, and complete once every suffix is appended
FoldsTo(line, stems) ==
    (Folding /\ text = line) =>
        /\ Len(chain) <= Len(stems)
        /\ \A k \in 1..Len(chain) : chain[k].val = stems[k]
        /\ pending = <<>> => Len(chain) = Len(stems)

IsFront(v) == v \in { "e", "i", "o~", "u~" }

IsRound(v) == v \in { "o", "o~", "u", "u~" }

LowVowel(f) == IF f THEN "e" ELSE "a"

HighVowel(f, r) ==
    IF f THEN (IF r THEN "u~" ELSE "i") ELSE (IF r THEN "u" ELSE "i~")

\* the position of the last member of S in s before position i, 0 when there is none
LastBefore(s, i, S) ==
    LET J == { j \in 1..(i - 1) : s[j] \in S }
    IN  IF J = {} THEN 0 ELSE CHOOSE j \in J : \A k \in J : k <= j

Harmonized(c, f, r) == IF c = "A" THEN LowVowel(f) ELSE HighVowel(f, r)

\* C8 (as claimed): every vowel placeholder of the buffer resolves with the
\* backness and the roundness of the nearest preceding exact vowel of the
\* buffer (back and unrounded when there is none), not of the placeholder
\* immediately before it.
C8_NearestExactVowel ==
    Appended =>
        LET buf == RawBuffer(Before, last.suffix, last.body)
        IN  \A i \in 1..Len(buf) :
              buf[i] \in { "A", "I" } =>
                LET j == LastBefore(buf, i, ExactVowels)
                IN  After[i] = Harmonized(buf[i], j # 0 /\ IsFront(buf[j]),
                                          j # 0 /\ IsRound(buf[j]))

\* C8 (amended): every vowel placeholder of the buffer takes its backness
\* from the nearest preceding exact vowel of the buffer (back when there is
\* none), and every I takes its roundness from the vowel immediately before
\* it in the result, exact or just resolved (unrounded when there is none).
C8_HarmonyPropagation ==
    Appended =>
        LET buf == RawBuffer(Before, last.suffix, last.body)
        IN  \A i \in 1..Len(buf) :
              buf[i] \in { "A", "I" } =>
                LET j == LastBefore(buf, i, ExactVowels)
                    k == LastBefore(After, i, vowel)
                IN  After[i] = Harmonized(buf[i], j # 0 /\ IsFront(buf[j]),
                                          k # 0 /\ IsRound(After[k]))

\* an I that follows an A of the same suffix, after a stem whose last exact vowel is rounded
C8_Witness ==
    /\ Appended
    /\ LET buf == RawBuffer(Before, last.suffix, last.body)
       IN  \E i \in 1..Len(buf) :
             /\ buf[i] = "I"
             /\ LastBefore(buf, i, vowel) # 0
             /\ buf[LastBefore(buf, i, vowel)] = "A"
             /\ LastBefore(buf, i, ExactVowels) # 0
             /\ IsRound(buf[LastBefore(buf, i, ExactVowels)])
             /\ ~IsRound(After[i])

\* the head of the last Append is in the result
HeadKept ==
    /\ Appended
    /\ HeadRealized(Before, last.suffix)
    /\ ~Elided

\* what Append gives for the same stem and the suffix without its head
WithoutHead ==
    AppendBuffer(<<Before, last.body>>, Slice(1, Len(Before)),
                 [Head |-> Zero, Tail |-> last.suffix.Tail,
                  Body |-> Slice(2, Len(last.body))]).s

\* C9: when the head of the suffix is in the result, it and the character
\* before it are of opposite vowel/consonant class; a head of the same class
\* as the stem's final character is absent from the result.
C9_HeadComplementarity ==
    (Appended /\ last.suffix.Head # Zero) =>
        LET n == Len(Before)
        IN  /\ HeadKept =>
                /\ Len(After) = n + 1 + Len(last.body)
                                + (IF last.suffix.Tail # Zero THEN 1 ELSE 0)
                /\ (After[n + 1] \in vowel) = (last.suffix.Head \in vowel)
                /\ (After[n] \in vowel) # (After[n + 1] \in vowel)
            /\ ((Before[n] \in vowel) = (last.suffix.Head \in vowel)) =>
                After = WithoutHead

\* a consonant head kept after an exact vowel by the second Append of a chain
C9_Witness ==
    /\ HeadKept
    /\ Len(chain) >= 3
    /\ last.suffix.Head = "y"
    /\ After[Len(Before) + 1] = "y"
    /\ After[Len(Before)] \in ExactVowels

\* surrounding whitespace removed
RECURSIVE TrimLeft(_)
TrimLeft(t) == IF t # <<>> /\ t[1] \in Space THEN TrimLeft(Tail(t)) ELSE t

RECURSIVE TrimRight(_)
TrimRight(t) ==
    IF t # <<>> /\ t[Len(t)] \in Space THEN TrimRight(SubSeq(t, 1, Len(t) - 1)) ELSE t

Trim(t) == TrimLeft(TrimRight(t))

\* the root grammar: exact letters, then one exact letter, one of B C D K, or (n)
RootGrammar(u) ==
    \E k \in 0..Len(u) :
        /\ \A i \in 1..k : u[i] \in Lower
        /\ \/ k + 1 = Len(u) /\ u[Len(u)] \in Lower \cup ConsPlaceholders
           \/ k + 3 = Len(u) /\ SubSeq(u, k + 1, k + 3) = TailNote

\* the root the grammar denotes: (n) becomes the single final character N
RootDenoted(u) ==
    IF Len(u) >= 3 /\ SubSeq(u, Len(u) - 2, Len(u)) = TailNote
    THEN SubSeq(u, 1, Len(u) - 3) \o <<"N">>
    ELSE u

\* C10: ParseRoot accepts exactly the trimmed texts of the root grammar and
\* returns their letters with (n) replaced by N; it fails on the empty text,
\* on A or I anywhere, on a bare N, and on a placeholder or parenthesis that
\* is not the final element.
C10_ParseRootGrammar ==
    last.op = "ParseRoot" =>
        /\ ok = RootGrammar(Trim(text))
        /\ ok => Runes(mem, root) = RootDenoted(Trim(text))
        /\ ~ok => root = NoSlice
        /\ (\/ Trim(text) = <<>>
            \/ \E i \in 1..Len(text) : text[i] \in { "A", "I", "N" }
            \/ \E i \in 1..(Len(Trim(text)) - 1) : Trim(text)[i] \in ConsPlaceholders
            \/ \E i \in 1..(Len(Trim(text)) - 3) : Trim(text)[i] \in { "(", ")" })
           => ~ok

\* a text with surrounding whitespace and the (n) note, accepted and normalized
C10_Witness ==
    /\ last.op = "ParseRoot"
    /\ ok
    /\ text # Trim(text)
    /\ Len(Trim(text)) >= 4
    /\ SubSeq(Trim(text), Len(Trim(text)) - 2, Len(Trim(text))) = TailNote
    /\ Runes(mem, root)[root.len] = "N"

\* the characters of the suffix notation outside parentheses
NotationChar == Lower \cup { "A", "I", "B", "C", "D", "K" }

\* the form (H)BODY(T): h and e are the lengths of the head and tail parts
SuffixGrammar(u) ==
    \E h \in { 0, 3 }, e \in { 0, 3 } :
        /\ h + e < Len(u)
        /\ h = 3 => u[1] = "(" /\ u[2] \in NotationChar /\ u[3] = ")"
        /\ e = 3 => SubSeq(u, Len(u) - 2, Len(u)) = TailNote
        /\ \A i \in (h + 1)..(Len(u) - e) : u[i] \in NotationChar

\* the Head, Body and Tail the form denotes
SuffixDenoted(u) ==
    LET h == IF u[1] = "(" THEN 3 ELSE 0
        e == IF u[Len(u)] = ")" THEN 3 ELSE 0
    IN  [Head |-> IF h = 3 THEN u[2] ELSE Zero,
         Tail |-> IF e = 3 THEN "n" ELSE Zero,
         Body |-> SubSeq(u, h + 1, Len(u) - e)]

\* C11: ParseSuffix accepts exactly the trimmed texts of the form
\* (H)BODY(T) and returns the Head, Body and Tail they denote, zero when
\* absent; it fails on an empty body, on a parenthesis that holds more or
\* fewer than one character, on a tail other than (n), on N, and on
\* characters outside the three groups.
C11_ParseSuffixGrammar ==
    last.op = "ParseSuffix" =>
        LET u == Trim(text)
            n == Len(u)
        IN  /\ ok = SuffixGrammar(u)
            /\ ok => /\ last.suffix.Head = SuffixDenoted(u).Head
                      /\ last.suffix.Tail = SuffixDenoted(u).Tail
                      /\ Runes(mem, last.suffix.Body) = SuffixDenoted(u).Body
                      /\ last.suffix.Body.len >= 1
            /\ ~ok => last.suffix = NoSuffix
            /\ (\/ n = 0
                \/ n = 3 /\ u[1] = "("
                \/ n = 6 /\ u[1] = "(" /\ u[4] = "("
                \/ \E i \in 1..n : u[i] = "N"
                \/ \E i \in 1..n : u[i] = "(" /\ (i + 2 > n \/ u[i + 2] # ")")
                \/ \E i \in 2..n : u[i] = "(" /\ (i + 1 > n \/ u[i + 1] # "n")
                \/ \E i \in 2..(n - 3) : u[i] = "("
                \/ \E i \in 1..n : u[i] \in Space)
               => ~ok

\* a text with surrounding whitespace, a head, a body with a placeholder and
\* the tail, accepted
C11_Witness ==
    /\ last.op = "ParseSuffix"
    /\ ok
    /\ text # Trim(text)
    /\ last.suffix.Head # Zero
    /\ last.suffix.Tail = "n"
    /\ Len(last.body) >= 2
    /\ \E i \in 1..Len(last.body) : last.body[i] \in Placeholders

\* the whitespace that separates the tokens of an input line
Delimiters == { " ", "\t", "\n", "\r" }

\* where the whitespace-delimited tokens of t start and end
TokenStarts(t) ==
    { i \in 1..Len(t) : t[i] \notin Delimiters /\ (i = 1 \/ t[i - 1] \in Delimiters) }

TokenEnds(t) ==
    { i \in 1..Len(t) : t[i] \notin Delimiters /\ (i = Len(t) \/ t[i + 1] \in Delimiters) }

\* the k-th smallest element of a set of integers
Nth(S, k) == CHOOSE x \in S : Cardinality({ y \in S : y < x }) = k - 1

Token(t, k) == SubSeq(t, Nth(TokenStarts(t), k), Nth(TokenEnds(t), k))

TokenCount(t) == Cardinality(TokenStarts(t))

\* C12: ParseRootSuffixes fails exactly when the line has no token, its
\* first token is no root, or a later token is no suffix, and on every
\* failure the root and the suffix list it returns are both empty.
C12_NoPartialResult ==
    last.op = "ParseRootSuffixes" =>
        LET n == TokenCount(text)
        IN  /\ ok = (/\ n >= 1
                     /\ ParseRoot(Token(text, 1)).ok
                     /\ \A k \in 2..n : ParseSuffix(Token(text, k)).ok)
            /\ ~ok => root = NoSlice /\ pending = <<>>

\* a line rejected for its third token after a root and a suffix that parse
C12_Witness ==
    /\ last.op = "ParseRootSuffixes"
    /\ ~ok
    /\ TokenCount(text) >= 3
    /\ ParseRoot(Token(text, 1)).ok
    /\ ParseSuffix(Token(text, 2)).ok
    /\ ~ParseSuffix(Token(text, 3)).ok

\* the line was parsed and no suffix has been appended yet
JustParsed == last.op = "ParseRootSuffixes" /\ ok

\* C13: on success the root is ParseRoot of the first token and the list
\* holds, in order, ParseSuffix of each later token, one for each.
C13_TextualOrder ==
    JustParsed =>
        LET n == TokenCount(text)
        IN  /\ n >= 1
            /\ Runes(mem, root) = ParseRoot(Token(text, 1)).r
            /\ Len(pending) = n - 1
            /\ \A k \in 1..(n - 1) :
                 LET s == ParseSuffix(Token(text, k + 1)).suf
                 IN  /\ pending[k].Head = s.Head
                     /\ pending[k].Tail = s.Tail
                     /\ Runes(mem, pending[k].Body) = s.Body

\* a parsed line of several different suffixes separated by runs of mixed whitespace
C13_Witness ==
    /\ JustParsed
    /\ Len(pending) >= 3
    /\ \E i \in 1..(Len(text) - 1) : text[i] = "\t" /\ text[i + 1] = "\r"
    /\ Runes(mem, pending[1].Body) # Runes(mem, pending[2].Body)

\* C14: Append and Word never index out of range: no call on a non-empty
\* stem, with a suffix whose body is non-empty, ends the program.
C14_NeverPanics ==
    /\ pc # "panic"
    /\ last.op # "Append panicked"
    /\ Appended => Len(Before) >= 1 /\ Len(last.body) >= 1 /\ Len(After) >= 1
    /\ pc \in { "word", "word2" } => word.len = stem.len /\ word.len >= 1

\* Append returned for a stem of one vowel that it elided, so that the
\* scan and the loop start on the first character of the body
C14_Witness ==
    /\ Elided
    /\ Len(Before) = 1
    /\ Before[1] \in vowel
    /\ ~HeadRealized(Before, last.suffix)
    /\ last.suffix.Tail = Zero
    /\ Len(After) = Len(last.body)

\* the result of the last Append holds the head of its suffix: the stem, the
\* head, the body and the tail are all there
HeadInResult ==
    /\ Appended
    /\ last.suffix.Head # Zero
    /\ Len(After) = Len(Before) + 1 + Len(last.body)
                    + (IF last.suffix.Tail # Zero THEN 1 ELSE 0)
    /\ (After[Len(Before) + 1] \in ExactVowels) = (last.suffix.Head \in vowel)

\* C15 (as claimed): a consonant head is in the result of Append if and only
\* if the stem ends in a vowel, and a vowel head is in it, harmonized, if and
\* only if the stem ends in a consonant (B, C, D, K and N are consonants),
\* whatever the body begins with.
C15_HeadRealization ==
    (Appended /\ last.suffix.Head # Zero) =>
        HeadInResult = ((Before[Len(Before)] \in vowel) # (last.suffix.Head \in vowel))

\* the head step appends the head: it is set and of the other class
HeadInserted ==
    /\ last.suffix.Head # Zero
    /\ (Before[Len(Before)] \in vowel) # (last.suffix.Head \in vowel)

\* after the head step the buffer ends in a vowel and the body begins with one
VowelsMeet ==
    /\ (IF HeadInserted THEN last.suffix.Head ELSE Before[Len(Before)]) \in vowel
    /\ last.body[1] \in vowel

\* how much of the result precedes the body
KeptLen ==
    Len(Before) + (IF HeadInserted THEN 1 ELSE 0) - (IF VowelsMeet THEN 1 ELSE 0)

NoVowelPair(s) == \A i \in 1..(Len(s) - 1) : ~(s[i] \in vowel /\ s[i + 1] \in vowel)

\* C17: when neither the stem nor the suffix body holds two adjacent
\* vowels, the result of Append holds none, whatever the head and the tail.
C17_NoVowelPair ==
    (Appended /\ NoVowelPair(Before) /\ NoVowelPair(last.body)) => NoVowelPair(After)

\* a stem of several characters ending in a vowel met a body beginning with
\* a vowel, and the result has no vowel pair
C17_Witness ==
    /\ Appended
    /\ Len(Before) >= 2
    /\ NoVowelPair(Before)
    /\ NoVowelPair(last.body)
    /\ Before[Len(Before)] \in vowel
    /\ last.body[1] \in vowel
    /\ Len(last.body) >= 2
    /\ last.suffix.Head \in vowel

\* buf with its vowel placeholders from position i on resolved against a
\* running context (f: front, r: round) that every vowel passed updates
RECURSIVE RunContext(_, _, _, _)
RunContext(buf, i, f, r) ==
    IF i > Len(buf) THEN buf
    ELSE IF buf[i] \in { "A", "I" }
         THEN LET v == Harmonized(buf[i], f, r)
              IN  RunContext([buf EXCEPT ![i] = v], i + 1, IsFront(v), IsRound(v))
         ELSE IF buf[i] \in ExactVowels
              THEN RunContext(buf, i + 1, IsFront(buf[i]), IsRound(buf[i]))
              ELSE RunContext(buf, i + 1, f, r)

\* the result agrees with RunContext started at the last exact vowel of
\* start (back and unrounded when it has none)
ContextFrom(start) ==
    LET buf == RawBuffer(Before, last.suffix, last.body)
        j   == LastBefore(start, Len(start) + 1, ExactVowels)
        exp == RunContext(buf, Len(Before), j # 0 /\ IsFront(start[j]),
                          j # 0 /\ IsRound(start[j]))
    IN  \A i \in 1..Len(buf) : buf[i] \in { "A", "I" } => After[i] = exp[i]

\* every resolved placeholder agrees in backness with the vowel before it in
\* the result, and every resolved I also in roundness
AgreesWithPreceding ==
    LET buf == RawBuffer(Before, last.suffix, last.body)
    IN  \A i \in 1..Len(buf) :
          buf[i] \in { "A", "I" } =>
            LET k == LastBefore(After, i, vowel)
            IN  k # 0 => /\ IsFront(After[i]) = IsFront(After[k])
                         /\ buf[i] = "I" => IsRound(After[i]) = IsRound(After[k])

\* C18 (as claimed): the vowel placeholders resolve against a running
\* context that starts as the quality of the last exact vowel of the stem
\* and is updated by every vowel passed, exact or just resolved.
C18_ContextFromStem ==
    Appended => ContextFrom(Before) /\ AgreesWithPreceding

\* C18 (amended): the running context starts as the quality of the last
\* exact vowel the stem still has in the buffer after the elision step (back
\* and unrounded when none is left), and is updated by every vowel passed,
\* exact or just resolved; so every resolved placeholder agrees in backness
\* with the vowel before it in the result, and every resolved I also in
\* roundness.
C18_RunningContext ==
    Appended =>
        /\ ContextFrom(SubSeq(RawBuffer(Before, last.suffix, last.body), 1,
                               Len(Before) - 1))
        /\ AgreesWithPreceding

\* the stem's final vowel was deleted and the I that took its place is
\* rounded like the vowel before it, not unrounded like the deleted one
C18_Witness ==
    /\ Appended
    /\ VowelsMeet
    /\ ~HeadInserted
    /\ last.body[1] = "I"
    /\ ~IsRound(Before[Len(Before)])
    /\ IsRound(After[Len(Before)])
    /\ \E k \in 1..(Len(Before) - 1) : Before[k] \in vowel

\* the consonants after which a placeholder stays voiceless
Unvoiced == { "f", "s", "t", "k", "c~", "s~", "h", "p" }

\* what B, C, D, K become between left (Zero when there is no left
\* neighbour) and right, as the claim states it
Mutated(left, c, right) ==
    IF right \in vowel /\ left # Zero /\ left \notin Unvoiced
    THEN CASE c = "B" -> "b"
           [] c = "C" -> "c"
           [] c = "D" -> "d"
           [] c = "K" -> IF left \in vowel THEN "g~" ELSE "g"
    ELSE CASE c = "B" -> "p"
           [] c = "C" -> "c~"
           [] c = "D" -> "t"
           [] c = "K" -> "k"

\* C19: a placeholder B, C, D, K at the stem's former last position or at
\* a non-final position of what Append added becomes voiced exactly when
\* its right neighbour is a vowel and its left neighbour exists and is not
\* voiceless, and voiceless otherwise; a voiced K is g~ after a vowel and g
\* after a voiced consonant.
C19_ConsonantMutation ==
    Appended =>
        LET buf == RawBuffer(Before, last.suffix, last.body)
        IN  \A i \in Len(Before)..(Len(buf) - 1) :
              buf[i] \in ConsPlaceholders =>
                After[i] = Mutated(IF i = 1 THEN Zero ELSE After[i - 1], buf[i],
                                   buf[i + 1])

\* the K that ends the stem became g~ between two vowels, and a K of the
\* suffix became k or g
C19_Witness ==
    /\ Appended
    /\ Len(Before) >= 2
    /\ Before[Len(Before)] = "K"
    /\ After[Len(Before)] = "g~"
    /\ \E j \in 1..Len(last.body) :
         /\ last.body[j] = "K"
         /\ Len(Before) + j < Len(After)
         /\ After[Len(Before) + j] \in { "k", "g" }

C21_LastCharacter ==
    Appended =>
        LET z == After[Len(After)]
            b == last.body[Len(last.body)]
            k == LastBefore(After, Len(After), vowel)
        IN  /\ last.suffix.Tail # Zero => z = "N"
            /\ (last.suffix.Tail = Zero /\ b \in ConsPlaceholders) => z = b
            /\ (last.suffix.Tail = Zero /\ b \in { "A", "I" }) =>
                 /\ z \in (IF b = "A" THEN { "a", "e" } ELSE { "i~", "i", "u", "u~" })
                 /\ k # 0 => /\ IsFront(z) = IsFront(After[k])
                              /\ b = "I" => IsRound(z) = IsRound(After[k])
                 /\ k = 0 => z = (IF b = "A" THEN "a" ELSE "i~")

\* the documented stem that ends in K: the K of (y)AcAK is left as it is
\* while the A before it is resolved
C21_Witness ==
    /\ Appended
    /\ last.suffix.Tail = Zero
    /\ last.body[Len(last.body)] = "K"
    /\ After = StemsTani[7]

\* C22: the first n-1 characters of the result of Append are those of its
\* stem of length n, so each stem of a chain without its last character is
\* a prefix of every later stem.
C22_PrefixKept ==
    /\ Appended =>
          /\ Len(After) >= Len(Before)
          /\ \A k \in 1..(Len(Before) - 1) : After[k] = Before[k]
    /\ \A i \in 1..Len(chain) : \A j \in i..Len(chain) :
          /\ Len(chain[j].val) >= Len(chain[i].val) - 1
          /\ SubSeq(chain[j].val, 1, Len(chain[i].val) - 1)
               = SubSeq(chain[i].val, 1, Len(chain[i].val) - 1)

\* a chain of four or more stems in which one Append rewrote the last
\* character of its stem and another was given a stem ending in a vowel
C22_Witness ==
    /\ Len(chain) >= 4
    /\ \E i \in 1..(Len(chain) - 1) :
         /\ Len(chain[i].val) >= 2
         /\ chain[i + 1].val[Len(chain[i].val)] # chain[i].val[Len(chain[i].val)]
    /\ \E i \in 1..(Len(chain) - 1) :
         chain[i].val[Len(chain[i].val)] \in ExactVowels
           /\ Len(chain[i + 1].val) > Len(chain[i].val)

\* C23: for a text ParseSuffix accepts, String() of the parsed Suffix is the
\* text without its surrounding whitespace, and ParseSuffix of that string
\* succeeds with the same Head, Body and Tail.
C23_SuffixRoundTrip ==
    /\ pc \in { "shown", "reparsed" } => shown = Trim(text)
    /\ pc = "reparsed" =>
          /\ again.ok
          /\ again.suf.Head = last.suffix.Head
          /\ again.suf.Tail = last.suffix.Tail
          /\ Runes(mem, again.suf.Body) = Runes(mem, last.suffix.Body)

\* a suffix with head and tail, parsed from a text with surrounding
\* whitespace, printed and parsed again
C23_Witness ==
    /\ pc = "reparsed"
    /\ text # shown
    /\ last.suffix.Head # Zero
    /\ last.suffix.Tail # Zero
    /\ again.suf.Body.len >= 2

\* the last Append deleted the final vowel of its stem
StemVowelDeleted == Appended /\ VowelsMeet /\ ~HeadInserted

Soyle == <<"s", "o~", "y", "l", "e">>

Iyor == <<"I", "y", "o", "r">>

\* C24: when Append deletes the final vowel of its stem, the vowel
\* placeholders of the suffix harmonize with the nearest exact vowel left
\* before the deletion point, and with back and unrounded when none is left:
\* so~yle + Iyor gives so~ylu~yor and o + Iyor gives i~yor.
C24_ElidedVowelIgnored ==
    StemVowelDeleted =>
        LET n   == Len(Before)
            buf == RawBuffer(Before, last.suffix, last.body)
            j   == LastBefore(Before, n, ExactVowels)
            f   == j # 0 /\ IsFront(Before[j])
            r   == j # 0 /\ IsRound(Before[j])
        IN  /\ buf[n] \in { "A", "I" } => After[n] = Harmonized(buf[n], f, r)
            /\ \A i \in n..Len(buf) :
                 (buf[i] \in { "A", "I" }
                    /\ \A k \in n..(i - 1) : buf[k] \notin ExactVowels)
                 => IsFront(After[i]) = f
            /\ (Before = Soyle /\ last.body = Iyor) =>
                 After = <<"s", "o~", "y", "l", "u~", "y", "o", "r">>
            /\ (Before = <<"o">> /\ last.body = Iyor) =>
                 After = <<"i~", "y", "o", "r">>

\* so~yle + Iyor: the deleted e is unrounded, the o~ before it is rounded
C24_Witness ==
    /\ StemVowelDeleted
    /\ Before = Soyle
    /\ last.body = Iyor
    /\ After[Len(Before)] = "u~"

=============================================================================
